---------------------------- MODULE Spec2Model ----------------------------
(***************************************************************************)
(* Model of the UN Comtrade connector: src/ingest/trade_data.py.           *)
(*                                                                         *)
(* run() enumerates (reporter x year x flow) tasks, drops the ones whose   *)
(* key is in the persisted completed set, and for every remaining task     *)
(* calls fetch_trade_data (one HTTP GET per attempt, with retries), buffers*)
(* the records per reporter, checkpoints the task and sleeps.  The process *)
(* can be killed between any two steps; a later run starts from the        *)
(* persisted state store and raw-storage sink.                             *)
(*                                                                         *)
(* Strings that the program builds (task keys, sink names) are sequences   *)
(* of one-character strings, built the way the f-strings build them.       *)
(***************************************************************************)
EXTENDS Integers, Sequences, FiniteSets, TLC

---------------------------------------------------------------------------
(* Bounds and program constants *)

\* First year of the crawl (trade_data.py line 26).
YEAR_START == 1990

\* Number of years the model enumerates; the program's range is 1990..2024.
YearSpan == 2

\* Last year of the crawl (trade_data.py line 27), cut down to YearSpan years.
YEAR_END == YEAR_START + YearSpan - 1

\* The endpoint answers 429 to one call chain only while retry_count is below this.
MaxRetryCount == 5

\* Base of the exponential backoff, in seconds (line 90).
BACKOFF_BASE == 60

\* Ceiling of the backoff wait, in seconds (line 90).
BACKOFF_MAX == 300

\* Retries allowed on the non-429 error path (line 101).
ERROR_RETRIES == 3

\* Wait before a non-429 retry, in seconds (line 102).
ERROR_WAIT == 10

---------------------------------------------------------------------------
(* Strings *)

Digits == <<"0", "1", "2", "3", "4", "5", "6", "7", "8", "9">>

\* str(n) for a natural number: its decimal digits.
RECURSIVE Str(_)
Str(n) == IF n < 10 THEN <<Digits[n + 1]>>
          ELSE Str(n \div 10) \o <<Digits[(n % 10) + 1]>>

\* Faulty variant of TaskKey: the flow code is left out of the key.
TaskKeyNoFlow(code, y, f_code) == Str(code) \o <<"_">> \o Str(y)

\* f"{code}_{y}_{f_code}" (lines 145 and 183).
TaskKey(code, y, f_code) == Str(code) \o <<"_">> \o Str(y) \o <<"_">> \o f_code

\* Faulty variant of TradeName: one name for every reporter.
TradeNameFixed(code) == <<"t", "r", "a", "d", "e", "_", "d", "a", "t", "a">>

\* f"trade_{current_reporter}" (lines 167 and 192).
TradeName(code) == <<"t", "r", "a", "d", "e", "_">> \o Str(code)

\* "reporters" (line 124).
ReportersName == <<"r", "e", "p", "o", "r", "t", "e", "r", "s">>

---------------------------------------------------------------------------
(* The upstream API *)

\* The "results" array of Reporters.json: two active reporters, one expired
\* entity and one group.
ReferenceResults ==
    << [reporterCode |-> 4,   reporterDesc |-> "Afghanistan", reporterCodeIsoAlpha3 |-> "AFG",
        entryExpiredDate |-> "",           isGroup |-> FALSE],
       [reporterCode |-> 58,  reporterDesc |-> "Belgium-Luxembourg", reporterCodeIsoAlpha3 |-> "BLX",
        entryExpiredDate |-> "1998-12-31", isGroup |-> FALSE],
       [reporterCode |-> 97,  reporterDesc |-> "EU", reporterCodeIsoAlpha3 |-> "EUR",
        entryExpiredDate |-> "",           isGroup |-> TRUE],
       [reporterCode |-> 12,  reporterDesc |-> "Algeria", reporterCodeIsoAlpha3 |-> "DZA",
        entryExpiredDate |-> "",           isGroup |-> FALSE] >>

\* The rows the trade endpoint holds for one (reporter, year, flow): opaque
\* objects to the connector.  The modelled endpoint holds two rows for every
\* reporter and flow of the first year and none for the later years.
TradeRows(code, y, f_code) ==
    IF y = YEAR_START
    THEN << [row |-> <<code, y, f_code, "a">>], [row |-> <<code, y, f_code, "b">>] >>
    ELSE <<>>

\* What one GET of the trade endpoint can produce: a transport exception, or
\* a response with a status and a body.  A 200 body may fail to parse, may
\* lack the "data" field, or carry an empty or a populated "data" array.
ErrorBody == [parses |-> TRUE, has_data |-> FALSE, data |-> <<>>]

Outcomes(code, y, f_code) ==
    { [raised |-> TRUE, status_code |-> 0, body |-> ErrorBody] }
    \cup { [raised |-> FALSE, status_code |-> s, body |-> ErrorBody] : s \in {429, 404, 500} }
    \cup { [raised |-> FALSE, status_code |-> 200, body |-> b] :
             b \in { [parses |-> FALSE, has_data |-> FALSE, data |-> <<>>],
                     [parses |-> TRUE,  has_data |-> FALSE, data |-> <<>>],
                     [parses |-> TRUE,  has_data |-> TRUE,  data |-> <<>>],
                     [parses |-> TRUE,  has_data |-> TRUE,  data |-> TradeRows(code, y, f_code)] } }

---------------------------------------------------------------------------
(* Pure parts of the program *)

\* fetch_reporters, lines 36-48: keep the entries that are neither expired
\* nor groups, in order.
RECURSIVE ActiveReporters(_)
ActiveReporters(results) ==
    IF results = <<>> THEN <<>>
    ELSE LET r == Head(results)
             rest == ActiveReporters(Tail(results))
         IN IF r.entryExpiredDate # "" THEN rest
            ELSE IF r.isGroup THEN rest
            ELSE <<[code |-> r.reporterCode, name |-> r.reporterDesc,
                    iso3 |-> r.reporterCodeIsoAlpha3]>> \o rest

\* Faulty variant of years: the last year is left out.
yearsExclusive == [k \in 1..(YEAR_END - YEAR_START) |-> YEAR_START + k - 1]

\* list(range(YEAR_START, YEAR_END + 1)), line 130.
years == [k \in 1..(YEAR_END + 1 - YEAR_START) |-> YEAR_START + k - 1]

\* Line 133.
flows == << [f_code |-> <<"M">>, f_name |-> "imports"],
            [f_code |-> <<"X">>, f_name |-> "exports"] >>

\* The comprehension of lines 136-141: reporter-major, then year, then flow.
AllTasks(reps) ==
    LET ny == Len(years)
        nf == Len(flows)
    IN [k \in 1..(Len(reps) * ny * nf) |->
          LET r == reps[((k - 1) \div (ny * nf)) + 1]
              y == years[(((k - 1) \div nf) % ny) + 1]
              f == flows[((k - 1) % nf) + 1]
          IN [code |-> r.code, name |-> r.name, year |-> y,
              f_code |-> f.f_code, f_name |-> f.f_name]]

KeyOf(t) == TaskKey(t.code, t.year, t.f_code)

\* Faulty variant of IsPending: the key is built without the flow code.
IsPendingNoFlow(t, done) == (Str(t.code) \o <<"_">> \o Str(t.year)) \notin done

\* Faulty variant of IsPending: a reporter with any completed task is skipped whole.
IsPendingByReporter(t, done) ==
    \A y \in {years[k] : k \in 1..Len(years)}, f \in {flows[k] : k \in 1..Len(flows)} :
        TaskKey(t.code, y, f.f_code) \notin done

\* The test of line 145.
IsPending(t, done) == KeyOf(t) \notin done

\* The comprehension of lines 142-146: the tasks whose key is not completed,
\* order preserved.
RECURSIVE PendingOf(_, _)
PendingOf(tasks, done) ==
    IF tasks = <<>> THEN <<>>
    ELSE IF IsPending(Head(tasks), done)
         THEN <<Head(tasks)>> \o PendingOf(Tail(tasks), done)
         ELSE PendingOf(Tail(tasks), done)

\* 2 ** n
RECURSIVE Pow2(_)
Pow2(n) == IF n = 0 THEN 1 ELSE 2 * Pow2(n - 1)

Min(a, b) == IF a < b THEN a ELSE b

\* Faulty variant of WaitTime: the ceiling is missing.
WaitTimeUncapped(rc) == BACKOFF_BASE * Pow2(rc)

\* Line 90.
WaitTime(rc) == Min(BACKOFF_BASE * Pow2(rc), BACKOFF_MAX)

\* Faulty variant of MayRetry: one retry too many.
MayRetryOffByOne(rc) == rc <= ERROR_RETRIES

\* Line 101.
MayRetry(rc) == rc < ERROR_RETRIES

\* Faulty variant of CompletedOf: the state is read under another name than it is
\* written.
CompletedOfTypo(state) == IF "complete" \in DOMAIN state THEN state["complete"] ELSE {}

\* state.get("completed", []) turned into a set, line 127.
CompletedOf(state) == IF "completed" \in DOMAIN state THEN state["completed"] ELSE {}

\* save_raw_json(records, name): the sink keeps one artifact per name.
Put(store, name, value) ==
    [n \in (DOMAIN store) \cup {name} |-> IF n = name THEN value ELSE store[n]]

\* Faulty variant of AddKey: the set is replaced by the new key.
AddKeyReplace(done, key) == {key}

\* completed.add(key), line 183.
AddKey(done, key) == done \cup {key}

\* Faulty variant of Persist: the state is not written.
PersistSkipped(store, done) == store

\* save_state("comtrade", {"completed": list(completed)}), line 184: a full
\* overwrite.  The list is kept as the set of its elements: its only reader
\* is the set(...) of line 127.
Persist(store, done) == [completed |-> done]

EmptyMap == [n \in {} |-> <<>>]

NoReporter == <<>>

---------------------------------------------------------------------------
(* State *)

VARIABLES
    pc,                \* where the process is: "idle" (never started), "reporters",
                       \* "load", "loop", "fetch", "returned", "sleep", "final",
                       \* or stopped: "done", "killed", "aborted"
    stateStore,        \* persisted: what load_state("comtrade") returns
    sink,              \* persisted: raw-storage artifacts, name -> content
    reporters,         \* run(): reporters
    completed,         \* run(): completed
    pending,           \* run(): pending
    i,                 \* run(): index of the loop (1-based) into pending
    current_reporter,  \* run(): current_reporter (NoReporter for None)
    reporter_records,  \* run(): reporter_records
    retry_count,       \* fetch_trade_data(): retry_count of the innermost call
    records,           \* run(): records, the value fetch_trade_data returned
    loaded,            \* history: the completed set as loaded by this run
    fetched,           \* history: tasks this run called fetch_trade_data for
    responses,         \* history: status codes received by the current call chain
    waits,             \* history: sleeps made inside the current call chain
    lostBuffer,        \* history: reporter_records at the moment of the kill that
                       \* stopped the process
    interrupted,       \* history: the task in flight at the kill that stopped the
                       \* previous process, until this run begins its first task
    flushes,           \* history: the save_raw_json calls this run made for trade
                       \* records, in order: [name, records]
    checkpoints,       \* history: the save_state calls this run made, in order:
                       \* [key, records], the key added and the records the
                       \* task's fetch_trade_data call had returned
    probe              \* the input and the result of a pure function applied on
                       \* its own (ProbeSpec); NoProbe while the program runs

memory == <<reporters, completed, pending, i, current_reporter, reporter_records,
            retry_count, records>>

history == <<loaded, fetched, responses, waits, lostBuffer, interrupted>>

ledger == <<flushes, checkpoints, probe>>

vars == <<pc, stateStore, sink, reporters, completed, pending, i, current_reporter,
          reporter_records, retry_count, records, loaded, fetched, responses, waits,
          lostBuffer, interrupted, flushes, checkpoints, probe>>

NoProbe == [kind |-> "none", input |-> <<>>, output |-> <<>>]

Stopped == {"idle", "done", "killed", "aborted"}

\* The keys in the state store, as they are on disk.
PersistedKeys == IF "completed" \in DOMAIN stateStore THEN stateStore.completed ELSE {}

Running == pc \notin Stopped

\* The memory of a process that does not exist (yet, or any more).
NoMemory ==
    /\ reporters = <<>>
    /\ completed = {}
    /\ pending = <<>>
    /\ i = 0
    /\ current_reporter = NoReporter
    /\ reporter_records = <<>>
    /\ retry_count = 0
    /\ records = <<>>

\* First start: nothing persisted yet.
Init ==
    /\ pc = "idle"
    /\ stateStore = EmptyMap
    /\ sink = EmptyMap
    /\ NoMemory
    /\ loaded = {}
    /\ fetched = <<>>
    /\ responses = <<>>
    /\ waits = <<>>
    /\ lostBuffer = <<>>
    /\ interrupted = <<>>
    /\ flushes = <<>>
    /\ checkpoints = <<>>
    /\ probe = NoProbe

\* The state store as some earlier use left it: any set of keys of tasks.
InitResume ==
    /\ pc = "idle"
    /\ \E S \in SUBSET {KeyOf(AllTasks(ActiveReporters(ReferenceResults))[k]) :
                          k \in 1..Len(AllTasks(ActiveReporters(ReferenceResults)))} :
          stateStore = [completed |-> S]
    /\ sink = EmptyMap
    /\ NoMemory
    /\ loaded = {}
    /\ fetched = <<>>
    /\ responses = <<>>
    /\ waits = <<>>
    /\ lostBuffer = <<>>
    /\ interrupted = <<>>
    /\ flushes = <<>>
    /\ checkpoints = <<>>
    /\ probe = NoProbe

---------------------------------------------------------------------------
(* Actions *)

\* main(): the process starts and enters run().
Start ==
    /\ pc \in Stopped
    /\ pc' = "reporters"
    /\ reporters' = <<>>
    /\ completed' = {}
    /\ pending' = <<>>
    /\ i' = 0
    /\ current_reporter' = NoReporter
    /\ reporter_records' = <<>>
    /\ retry_count' = 0
    /\ records' = <<>>
    /\ loaded' = {}
    /\ fetched' = <<>>
    /\ responses' = <<>>
    /\ waits' = <<>>
    /\ lostBuffer' = <<>>
    /\ flushes' = <<>>
    /\ checkpoints' = <<>>
    /\ UNCHANGED <<stateStore, sink, interrupted, probe>>

\* Lines 123-124: fetch the reporter list and save it.
FetchReporters ==
    /\ pc = "reporters"
    /\ reporters' = ActiveReporters(ReferenceResults)
    /\ sink' = Put(sink, ReportersName, reporters')
    /\ pc' = "load"
    /\ UNCHANGED <<stateStore, completed, pending, i, current_reporter,
                   reporter_records, retry_count, records, history, ledger>>

\* Lines 126-161: load the state, build all_tasks and pending; return when
\* nothing is pending.
LoadState ==
    /\ pc = "load"
    /\ completed' = CompletedOf(stateStore)
    /\ pending' = PendingOf(AllTasks(reporters), completed')
    /\ loaded' = PersistedKeys
    /\ IF pending' = <<>>
       THEN /\ pc' = "done"
            /\ i' = 0
       ELSE /\ pc' = "loop"
            /\ i' = 1
    /\ current_reporter' = NoReporter
    /\ reporter_records' = <<>>
    /\ UNCHANGED <<stateStore, sink, reporters, retry_count, records, fetched,
                   responses, waits, lostBuffer, interrupted, ledger>>

\* Faulty variant of BeginTask: the buffer is not emptied after the flush.
BeginTaskNoReset ==
    /\ pc = "loop"
    /\ LET t == pending[i]
           switch == current_reporter # NoReporter /\ <<t.code>> # current_reporter
       IN /\ IF switch
             THEN /\ sink' = IF reporter_records # <<>>
                             THEN Put(sink, TradeName(current_reporter[1]), reporter_records)
                             ELSE sink
                  /\ flushes' = IF reporter_records # <<>>
                                THEN Append(flushes, [name |-> TradeName(current_reporter[1]),
                                                      records |-> reporter_records])
                                ELSE flushes
                  /\ reporter_records' = reporter_records
             ELSE UNCHANGED <<sink, reporter_records, flushes>>
          /\ current_reporter' = <<t.code>>
          /\ fetched' = Append(fetched, t)
    /\ retry_count' = 0
    /\ responses' = <<>>
    /\ waits' = <<>>
    /\ pc' = "fetch"
    /\ interrupted' = <<>>
    /\ UNCHANGED <<stateStore, reporters, completed, pending, i, records,
                   loaded, lostBuffer, checkpoints, probe>>

\* Lines 163-175: head of one iteration.  Flush the previous reporter's
\* buffer when the reporter changes, then call fetch_trade_data.
BeginTask ==
    /\ pc = "loop"
    /\ LET t == pending[i]
           switch == current_reporter # NoReporter /\ <<t.code>> # current_reporter
       IN /\ IF switch
             THEN /\ sink' = IF reporter_records # <<>>
                             THEN Put(sink, TradeName(current_reporter[1]), reporter_records)
                             ELSE sink
                  /\ flushes' = IF reporter_records # <<>>
                                THEN Append(flushes, [name |-> TradeName(current_reporter[1]),
                                                      records |-> reporter_records])
                                ELSE flushes
                  /\ reporter_records' = <<>>
             ELSE UNCHANGED <<sink, reporter_records, flushes>>
          /\ current_reporter' = <<t.code>>
          /\ fetched' = Append(fetched, t)
    /\ retry_count' = 0
    /\ responses' = <<>>
    /\ waits' = <<>>
    /\ pc' = "fetch"
    /\ interrupted' = <<>>
    /\ UNCHANGED <<stateStore, reporters, completed, pending, i, records,
                   loaded, lostBuffer, checkpoints, probe>>

\* The memory and the per-run history of a process that stopped abnormally.
Wipe ==
    /\ reporters' = <<>>
    /\ completed' = {}
    /\ pending' = <<>>
    /\ i' = 0
    /\ current_reporter' = NoReporter
    /\ reporter_records' = <<>>
    /\ retry_count' = 0
    /\ records' = <<>>

\* Lines 87-107: one invocation of fetch_trade_data from the GET on.
\* Line 87 raising: nothing catches the exception, neither here nor in
\* run(), so the process stops.
GetRaises ==
    /\ pc = "fetch"
    /\ \E o \in Outcomes(pending[i].code, pending[i].year, pending[i].f_code) :
          /\ o.raised
          /\ responses' = Append(responses, "exception")
    /\ pc' = "aborted"
    /\ Wipe
    /\ UNCHANGED <<stateStore, sink, loaded, fetched, waits, lostBuffer, interrupted,
                   ledger>>

\* Faulty variant of RateLimited: the 429 path gives up like the error path.
RateLimitedBounded ==
    /\ pc = "fetch"
    /\ retry_count < MaxRetryCount
    /\ \E o \in Outcomes(pending[i].code, pending[i].year, pending[i].f_code) :
          /\ ~o.raised
          /\ o.status_code = 429
          /\ responses' = Append(responses, "429")
    /\ IF MayRetry(retry_count)
       THEN /\ waits' = Append(waits, WaitTime(retry_count))
            /\ retry_count' = retry_count + 1
            /\ UNCHANGED <<pc, records>>
       ELSE /\ records' = <<>>
            /\ pc' = "returned"
            /\ UNCHANGED <<waits, retry_count>>
    /\ UNCHANGED <<stateStore, sink, reporters, completed, pending, i,
                   current_reporter, reporter_records, loaded, fetched,
                   lostBuffer, interrupted, ledger>>

\* Lines 89-93: rate limited; back off and call again.
RateLimited ==
    /\ pc = "fetch"
    /\ retry_count < MaxRetryCount
    /\ \E o \in Outcomes(pending[i].code, pending[i].year, pending[i].f_code) :
          /\ ~o.raised
          /\ o.status_code = 429
          /\ responses' = Append(responses, "429")
    /\ waits' = Append(waits, WaitTime(retry_count))
    /\ retry_count' = retry_count + 1
    /\ UNCHANGED <<pc, stateStore, sink, reporters, completed, pending, i,
                   current_reporter, reporter_records, records, loaded, fetched,
                   lostBuffer, interrupted, ledger>>

\* Faulty variant of NotFound: the 404 branch is missing, so a 404 takes the path
\* of the other error statuses.
NotFoundRetried ==
    /\ pc = "fetch"
    /\ \E o \in Outcomes(pending[i].code, pending[i].year, pending[i].f_code) :
          /\ ~o.raised
          /\ o.status_code = 404
          /\ responses' = Append(responses, "404")
    /\ IF MayRetry(retry_count)
       THEN /\ waits' = Append(waits, ERROR_WAIT)
            /\ retry_count' = retry_count + 1
            /\ UNCHANGED <<pc, records>>
       ELSE /\ records' = <<>>
            /\ pc' = "returned"
            /\ UNCHANGED <<waits, retry_count>>
    /\ UNCHANGED <<stateStore, sink, reporters, completed, pending, i,
                   current_reporter, reporter_records, loaded, fetched,
                   lostBuffer, interrupted, ledger>>

\* Lines 95-97: no data for this reporter and year.
NotFound ==
    /\ pc = "fetch"
    /\ \E o \in Outcomes(pending[i].code, pending[i].year, pending[i].f_code) :
          /\ ~o.raised
          /\ o.status_code = 404
          /\ responses' = Append(responses, "404")
    /\ records' = <<>>
    /\ pc' = "returned"
    /\ UNCHANGED <<stateStore, sink, reporters, completed, pending, i,
                   current_reporter, reporter_records, retry_count, loaded, fetched,
                   waits, lostBuffer, interrupted, ledger>>

\* Faulty variant of HttpError: the error path counts its own retries only.
HttpErrorOwnCounter ==
    /\ pc = "fetch"
    /\ \E o \in Outcomes(pending[i].code, pending[i].year, pending[i].f_code) :
          /\ ~o.raised
          /\ o.status_code \notin {429, 404, 200}
          /\ responses' = Append(responses, "500")
    /\ IF MayRetry(Cardinality({k \in 1..Len(responses) : responses[k] = "500"}))
       THEN /\ waits' = Append(waits, ERROR_WAIT)
            /\ retry_count' = retry_count + 1
            /\ UNCHANGED <<pc, records>>
       ELSE /\ records' = <<>>
            /\ pc' = "returned"
            /\ UNCHANGED <<waits, retry_count>>
    /\ UNCHANGED <<stateStore, sink, reporters, completed, pending, i,
                   current_reporter, reporter_records, loaded, fetched,
                   lostBuffer, interrupted, ledger>>

\* Lines 99-104: any other status but 200; retry after a fixed wait, or give up.
HttpError ==
    /\ pc = "fetch"
    /\ \E o \in Outcomes(pending[i].code, pending[i].year, pending[i].f_code) :
          /\ ~o.raised
          /\ o.status_code \notin {429, 404, 200}
          /\ responses' = Append(responses, "500")
    /\ IF MayRetry(retry_count)
       THEN /\ waits' = Append(waits, ERROR_WAIT)
            /\ retry_count' = retry_count + 1
            /\ UNCHANGED <<pc, records>>
       ELSE /\ records' = <<>>
            /\ pc' = "returned"
            /\ UNCHANGED <<waits, retry_count>>
    /\ UNCHANGED <<stateStore, sink, reporters, completed, pending, i,
                   current_reporter, reporter_records, loaded, fetched,
                   lostBuffer, interrupted, ledger>>

\* Lines 106-107 with a body that parses: return data.get("data", []).
Ok ==
    /\ pc = "fetch"
    /\ \E o \in Outcomes(pending[i].code, pending[i].year, pending[i].f_code) :
          /\ ~o.raised
          /\ o.status_code = 200
          /\ o.body.parses
          /\ records' = IF o.body.has_data THEN o.body.data ELSE <<>>
    /\ responses' = Append(responses, "200")
    /\ pc' = "returned"
    /\ UNCHANGED <<stateStore, sink, reporters, completed, pending, i,
                   current_reporter, reporter_records, retry_count, loaded, fetched,
                   waits, lostBuffer, interrupted, ledger>>

\* Faulty variant of BadBody: the failing task is checkpointed on the way out.
BadBodyCheckpointed ==
    /\ pc = "fetch"
    /\ \E o \in Outcomes(pending[i].code, pending[i].year, pending[i].f_code) :
          /\ ~o.raised
          /\ o.status_code = 200
          /\ ~o.body.parses
    /\ responses' = Append(responses, "200")
    /\ stateStore' = Persist(stateStore, AddKey(completed, KeyOf(pending[i])))
    /\ pc' = "aborted"
    /\ Wipe
    /\ UNCHANGED <<sink, loaded, fetched, waits, lostBuffer, interrupted, ledger>>

\* Line 106 with a body that does not parse: response.json() raises, and
\* nothing catches it.
BadBody ==
    /\ pc = "fetch"
    /\ \E o \in Outcomes(pending[i].code, pending[i].year, pending[i].f_code) :
          /\ ~o.raised
          /\ o.status_code = 200
          /\ ~o.body.parses
    /\ responses' = Append(responses, "200")
    /\ pc' = "aborted"
    /\ Wipe
    /\ UNCHANGED <<stateStore, sink, loaded, fetched, waits, lostBuffer, interrupted,
                   ledger>>

\* Faulty variant of Checkpoint: the key is added and the state saved only
\* for a task that returned records.
CheckpointDataOnly ==
    /\ pc = "returned"
    /\ IF records # <<>>
       THEN /\ reporter_records' = reporter_records \o records
            /\ completed' = AddKey(completed, KeyOf(pending[i]))
            /\ stateStore' = Persist(stateStore, completed')
            /\ checkpoints' = Append(checkpoints,
                                     [key |-> KeyOf(pending[i]), records |-> records])
       ELSE UNCHANGED <<reporter_records, completed, stateStore, checkpoints>>
    /\ pc' = "sleep"
    /\ UNCHANGED <<sink, reporters, pending, i, current_reporter, retry_count,
                   records, history, flushes, probe>>

\* Lines 177-184: buffer the records, add the key, persist the whole set.
Checkpoint ==
    /\ pc = "returned"
    /\ reporter_records' = IF records # <<>> THEN reporter_records \o records
                           ELSE reporter_records
    /\ completed' = AddKey(completed, KeyOf(pending[i]))
    /\ stateStore' = Persist(stateStore, completed')
    /\ checkpoints' = Append(checkpoints, [key |-> KeyOf(pending[i]), records |-> records])
    /\ pc' = "sleep"
    /\ UNCHANGED <<sink, reporters, pending, i, current_reporter, retry_count,
                   records, history, flushes, probe>>

\* Line 188 and the loop's advance.
Sleep ==
    /\ pc = "sleep"
    /\ IF i < Len(pending)
       THEN /\ i' = i + 1
            /\ pc' = "loop"
       ELSE /\ i' = i
            /\ pc' = "final"
    /\ UNCHANGED <<stateStore, sink, reporters, completed, pending, current_reporter,
                   reporter_records, retry_count, records, history, ledger>>

\* Lines 191-195: flush the last reporter's buffer and return.
FinalFlush ==
    /\ pc = "final"
    /\ sink' = IF reporter_records # <<>>
               THEN Put(sink, TradeName(current_reporter[1]), reporter_records)
               ELSE sink
    /\ flushes' = IF reporter_records # <<>>
                  THEN Append(flushes, [name |-> TradeName(current_reporter[1]),
                                        records |-> reporter_records])
                  ELSE flushes
    /\ pc' = "done"
    /\ UNCHANGED <<stateStore, reporters, completed, pending, i, current_reporter,
                   reporter_records, retry_count, records, history, checkpoints, probe>>

\* The process is terminated (SIGINT, kill) between two steps: its memory
\* is gone, what it persisted stays.
Kill ==
    /\ Running
    /\ pc' = "killed"
    /\ lostBuffer' = reporter_records
    /\ interrupted' = IF pc \in {"fetch", "returned"} THEN <<pending[i]>> ELSE <<>>
    /\ Wipe
    /\ UNCHANGED <<stateStore, sink, loaded, fetched, responses, waits, ledger>>

Next ==
    \/ Start
    \/ FetchReporters
    \/ LoadState
    \/ BeginTask
    \/ GetRaises
    \/ RateLimited
    \/ NotFound
    \/ HttpError
    \/ Ok
    \/ BadBody
    \/ Checkpoint
    \/ Sleep
    \/ FinalFlush
    \/ Kill

\* Any number of runs and kills, from an empty state store.
Spec == Init /\ [][Next]_vars

\* The only start of a single run.
FirstStart == pc = "idle" /\ Start

NextOnce ==
    \/ FirstStart
    \/ FetchReporters
    \/ LoadState
    \/ BeginTask
    \/ GetRaises
    \/ NotFound
    \/ HttpError
    \/ Ok
    \/ BadBody
    \/ Checkpoint
    \/ Sleep
    \/ FinalFlush

\* One run that nothing kills, from a state store holding any set of task
\* keys, against an endpoint that does not rate-limit.
SpecResume == InitResume /\ [][NextOnce]_vars

\* One run in which no exception is raised and the process is not killed.
\* Progress is every step but the 429 answer: the process takes its next
\* step, and the endpoint eventually answers something other than 429.
Progress ==
    \/ FirstStart
    \/ FetchReporters
    \/ LoadState
    \/ BeginTask
    \/ NotFound
    \/ HttpError
    \/ Ok
    \/ Checkpoint
    \/ Sleep
    \/ FinalFlush

NextLive == Progress \/ RateLimited

SpecLive == Init /\ [][NextLive]_vars /\ WF_vars(Progress)

----------------------------------------------------------------------------
\* The task key and the task enumeration on their own: each is applied once
\* to an input drawn from the ranges below, outside any run.

ProbeCodeMax == 900
ProbeYearMin == 1962
ProbeYearMax == 2024

\* The reporter lists the enumeration is applied to: every ordering of every
\* subset of the reference reporters (distinct codes).
ReporterLists ==
    LET all == [k \in 1..Len(ReferenceResults) |->
                   [code |-> ReferenceResults[k].reporterCode,
                    name |-> ReferenceResults[k].reporterDesc,
                    iso3 |-> ReferenceResults[k].reporterCodeIsoAlpha3]]
    IN UNION {{[k \in 1..n |-> all[f[k]]] :
                  f \in {g \in [1..n -> 1..Len(all)] :
                            \A a, b \in 1..n : a # b => g[a] # g[b]}} :
              n \in 0..Len(all)}

\* Lines 145 and 183-184 for one task of the given reporter, year and flow:
\* the key, what save_state persists after the task, and what the filter of
\* the next run answers for it.
KeyProbe ==
    /\ probe.kind = "none"
    /\ \E code \in 1..ProbeCodeMax, y \in ProbeYearMin..ProbeYearMax, k \in 1..Len(flows) :
          LET t == [code |-> code, name |-> "n", year |-> y,
                    f_code |-> flows[k].f_code, f_name |-> flows[k].f_name]
              saved == Persist(EmptyMap, AddKey({}, KeyOf(t)))
          IN probe' = [kind |-> "key",
                       input |-> <<code, y, flows[k].f_code>>,
                       output |-> [key |-> TaskKey(code, y, flows[k].f_code),
                                   stored |-> CompletedOf(saved),
                                   pending |-> IsPending(t, CompletedOf(saved))]]
    /\ UNCHANGED <<pc, stateStore, sink, memory, history, flushes, checkpoints>>

\* Lines 129-141 for one reporter list.
EnumProbe ==
    /\ probe.kind = "none"
    /\ \E R \in ReporterLists :
          probe' = [kind |-> "tasks", input |-> R, output |-> AllTasks(R)]
    /\ UNCHANGED <<pc, stateStore, sink, memory, history, flushes, checkpoints>>

ProbeNext == KeyProbe \/ EnumProbe

ProbeSpec == Init /\ [][ProbeNext]_vars

---------------------------------------------------------------------------
(* Properties *)

\* The reporter list and the task list of every run (the reference data is fixed).
TheReporters == ActiveReporters(ReferenceResults)

TheTasks == AllTasks(TheReporters)

TheKeys == {KeyOf(TheTasks[k]) : k \in 1..Len(TheTasks)}

\* The positions, in the enumeration, of the tasks whose key is not in done.
OpenPositions(done) == {k \in 1..Len(TheTasks) : KeyOf(TheTasks[k]) \notin done}

\* The n-th smallest of a set of positions.
NthOf(K, n) == CHOOSE k \in K : Cardinality({m \in K : m < k}) = n - 1

\* fetch_trade_data has returned for the last task of fetched and its
\* iteration has passed the checkpoint.
PastCheckpoint == pc \in {"sleep", "loop", "final", "done"}

LastResponse == responses[Len(responses)]

\* C1 (resumability): whatever set of keys the run loaded, the tasks it
\* calls fetch_trade_data for are, in enumeration order and once each, the
\* tasks whose key is not in the loaded set: at every moment after loading the
\* calls made so far are the first ones of that list, and a run that reaches
\* its end has made exactly that list of calls.
C1_Resumability ==
    pc \notin {"idle", "reporters", "load"} =>
        LET K == OpenPositions(loaded)
        IN /\ Len(fetched) <= Cardinality(K)
           /\ \A j \in 1..Len(fetched) : fetched[j] = TheTasks[NthOf(K, j)]
           /\ pc = "done" => Len(fetched) = Cardinality(K)

\* A finished run that loaded a set which is no prefix of the enumeration
\* (the second task completed, the first not) and fetched at least two tasks.
C1_Witness ==
    /\ pc = "done"
    /\ KeyOf(TheTasks[2]) \in loaded
    /\ KeyOf(TheTasks[1]) \notin loaded
    /\ Len(fetched) >= 2
    /\ fetched[1] = TheTasks[1]

\* C2 (idempotence): a run that loaded a set holding the key of every
\* enumerated task calls fetch_trade_data for no task and receives no
\* response from the trade endpoint; it is over as soon as the state is
\* loaded, however often it is repeated.
C2_Idempotence ==
    (pc \notin {"idle", "reporters", "load"} /\ TheKeys \subseteq loaded) =>
        /\ fetched = <<>>
        /\ responses = <<>>
        /\ pc = "done"
        /\ PersistedKeys = loaded

\* A run that found every task completed and ended without a fetch.
C2_Witness ==
    /\ pc = "done"
    /\ TheKeys # {}
    /\ TheKeys \subseteq loaded
    /\ fetched = <<>>

\* C3 (checkpoint ordering): the key of every task whose fetch_trade_data
\* call the run has got past is in the persisted set, from the moment the
\* inter-request delay starts: all tasks before the one being fetched, and
\* the last one too once the loop is at its sleep or beyond, also when the
\* process was killed there.
C3_CheckpointBeforeDelay ==
    \A j \in 1..Len(fetched) :
        (j < Len(fetched) \/ PastCheckpoint \/ (pc = "killed" /\ interrupted = <<>>))
            => KeyOf(fetched[j]) \in PersistedKeys

\* The loop is in the delay after a task that returned nothing, an earlier
\* task of the run having returned records.
C3_Witness ==
    /\ pc = "sleep"
    /\ Len(fetched) >= 2
    /\ records = <<>>
    /\ reporter_records # <<>>
    /\ KeyOf(fetched[Len(fetched)]) \in PersistedKeys

\* C4 (no re-fetch): whenever a call of fetch_trade_data is in progress or
\* has just returned, the key of its task is not in the persisted set: no
\* GET is ever issued for a task that is checkpointed.
C4_NoRefetch ==
    pc \in {"fetch", "returned"} => KeyOf(pending[i]) \notin PersistedKeys

\* A later run, started with keys persisted, has received a response for
\* its first pending task.
C4_Witness ==
    /\ pc = "fetch"
    /\ Len(fetched) = 1
    /\ PersistedKeys # {}
    /\ responses # <<>>

\* The rows that reached the raw-storage sink under the name of a reporter.
FlushedRows ==
    UNION { {sink[TradeName(TheReporters[r].code)][k] :
                k \in 1..Len(sink[TradeName(TheReporters[r].code)])} :
            r \in {q \in 1..Len(TheReporters) : TradeName(TheReporters[q].code) \in DOMAIN sink} }

\* The key of the task a row of the endpoint was returned for.
RowKey(rec) == TaskKey(rec.row[1], rec.row[2], rec.row[3])

\* The tasks whose rows the kill destroyed for good: the rows were in the
\* buffer, they are not in the sink, and the task's key is persisted, so no
\* later run fetches them again.
LostTasks ==
    {RowKey(lostBuffer[k]) : k \in 1..Len(lostBuffer)}
        \cap {key \in PersistedKeys :
                \E k \in 1..Len(lostBuffer) :
                    RowKey(lostBuffer[k]) = key /\ lostBuffer[k] \notin FlushedRows}

\* C5 (bounded loss on interruption), as claimed: after a kill, the rows of
\* every checkpointed task are in the sink; at most the one task in flight,
\* which is not checkpointed, has lost its work.  The weakest reading is
\* stated: the kill leaves at most one checkpointed task without its rows.
C5_BoundedLoss == pc = "killed" => Cardinality(LostTasks) <= 1

\* C6 (the interrupted task is re-attempted): the persisted set changes only
\* by the step that follows the return of fetch_trade_data, which adds the
\* key of the task that call was made for; a task in flight when the process
\* is killed is not in the persisted set, and the next run has it in its
\* pending list.
C6_InterruptedIsRetried ==
    /\ [][PersistedKeys' # PersistedKeys =>
            /\ pc = "returned"
            /\ PersistedKeys' = PersistedKeys \cup {KeyOf(pending[i])}]_vars
    /\ [](interrupted # <<>> =>
            /\ KeyOf(interrupted[1]) \notin PersistedKeys
            /\ pc = "loop" => \E j \in 1..Len(pending) : pending[j] = interrupted[1])

\* The run after a kill has built its pending list; the kill came after the
\* interrupted task's fetch, and earlier tasks are checkpointed.
C6_Witness ==
    /\ pc = "loop"
    /\ interrupted # <<>>
    /\ PersistedKeys # {}
    /\ pending[1] = interrupted[1]

\* C7 (retry bound): a call chain that has received nothing but HTTP 500
\* makes at most 4 GETs, waits 10 seconds before each GET but the first, and
\* has returned the empty list exactly when the fourth 500 has arrived.
C7_RetryBound ==
    (responses # <<>> /\ \A k \in 1..Len(responses) : responses[k] = "500") =>
        /\ Len(responses) <= 4
        /\ pc = "fetch" => (Len(responses) < 4 /\ Len(waits) = Len(responses))
        /\ (pc \in {"returned", "sleep"}) =>
              (Len(responses) = 4 /\ Len(waits) = 3 /\ records = <<>>)
        /\ \A k \in 1..Len(waits) : waits[k] = 10

\* fetch_trade_data has just given up after four 500 responses.
C7_Witness ==
    /\ pc = "returned"
    /\ responses = <<"500", "500", "500", "500">>
    /\ waits = <<10, 10, 10>>
    /\ records = <<>>

\* C8 (backoff growth): a call chain that has received nothing but HTTP 429
\* has waited once per response, the k-th wait being min(60 * 2^(k-1), 300)
\* seconds, and has not returned: it is about to issue the next GET.
C8_BackoffGrowth ==
    (responses # <<>> /\ \A k \in 1..Len(responses) : responses[k] = "429") =>
        /\ Len(waits) = Len(responses)
        /\ \A k \in 1..Len(waits) :
              /\ waits[k] = IF 60 * (2 ^ (k - 1)) < 300 THEN 60 * (2 ^ (k - 1)) ELSE 300
              /\ waits[k] <= 300
        /\ pc \in {"fetch", "killed"}

\* Five 429 responses in a row have been waited for.
C8_Witness ==
    /\ pc = "fetch"
    /\ responses = <<"429", "429", "429", "429", "429">>
    /\ waits = <<60, 120, 240, 300, 300>>

\* C9 (404 short-circuit): once a 404 has been received, it is the last
\* response of the call chain (no further GET), no wait follows it,
\* fetch_trade_data has returned the empty list, and beyond the checkpoint
\* the task's key is persisted.
C9_NotFoundShortCircuit ==
    (responses # <<>> /\ \E k \in 1..Len(responses) : responses[k] = "404") =>
        /\ LastResponse = "404"
        /\ pc # "fetch"
        /\ Len(waits) = Len(responses) - 1
        /\ (pc \in {"returned", "sleep"}) => records = <<>>
        /\ PastCheckpoint => KeyOf(fetched[Len(fetched)]) \in PersistedKeys

\* A task answered by a single 404 is checkpointed and the loop is in its delay.
C9_Witness ==
    /\ pc = "sleep"
    /\ responses = <<"404">>
    /\ waits = <<>>
    /\ records = <<>>
    /\ KeyOf(pending[i]) \in PersistedKeys

\* C10 (transport failures are absorbed), as claimed: when the GET raises,
\* the exception does not escape fetch_trade_data; the call returns the
\* empty list, and the loop checkpoints the task and goes on.
C10_TransportAbsorbed ==
    (responses # <<>> /\ LastResponse = "exception") =>
        /\ pc # "aborted"
        /\ (pc \in {"returned", "sleep"}) => records = <<>>
        /\ PastCheckpoint => KeyOf(fetched[Len(fetched)]) \in PersistedKeys

\* The records the first n checkpointed tasks of this run returned for
\* reporter code c, concatenated in task order.
RECURSIVE ReturnedFor(_, _)
ReturnedFor(c, n) ==
    IF n = 0 THEN <<>>
    ELSE ReturnedFor(c, n - 1)
            \o (IF fetched[n].code = c THEN checkpoints[n].records ELSE <<>>)

\* The positions in flushes of the flushes made under the name of reporter code c.
FlushesOf(c) == {k \in 1..Len(flushes) : flushes[k].name = TradeName(c)}

\* The position of reporter code c in the reporter list.
ReporterIndex(c) == CHOOSE r \in 1..Len(TheReporters) : TheReporters[r].code = c

\* C11 (batch grouping): at the end of a run that nothing interrupted, every
\* reporter with pending tasks has exactly one flush if its tasks returned
\* any record and none otherwise; that flush is named trade_{code} and holds
\* the records of exactly that reporter's tasks, concatenated in task order,
\* which is also what the sink holds under that name; there is no other
\* flush, and the flushes follow the order of the reporter list.
C11_BatchGrouping ==
    pc = "done" =>
        /\ Len(checkpoints) = Len(fetched)
        /\ \A j \in 1..Len(fetched) :
              LET c == fetched[j].code
                  expected == ReturnedFor(c, Len(fetched))
              IN /\ Cardinality(FlushesOf(c)) = IF expected = <<>> THEN 0 ELSE 1
                 /\ \A k \in FlushesOf(c) :
                       /\ flushes[k].records = expected
                       /\ sink[TradeName(c)] = expected
        /\ \A k \in 1..Len(flushes) :
              \E j \in 1..Len(fetched) : flushes[k].name = TradeName(fetched[j].code)
        /\ \A k1, k2 \in 1..Len(flushes) :
              k1 < k2 =>
                \E j1, j2 \in 1..Len(fetched) :
                    /\ flushes[k1].name = TradeName(fetched[j1].code)
                    /\ flushes[k2].name = TradeName(fetched[j2].code)
                    /\ ReporterIndex(fetched[j1].code) < ReporterIndex(fetched[j2].code)

\* A finished run with two flushes, each of the four rows that two tasks of
\* one reporter returned, other tasks of the reporter having returned nothing.
C11_Witness ==
    /\ pc = "done"
    /\ Len(fetched) = Len(TheTasks)
    /\ Len(flushes) = 2
    /\ flushes[1].name = TradeName(TheReporters[1].code)
    /\ flushes[2].name = TradeName(TheReporters[2].code)
    /\ Len(flushes[1].records) = 4
    /\ Len(flushes[2].records) = 4

\* The object the endpoint returned, without any field added afterwards.
AsReturned(rec) == [row |-> rec.row]

\* C12 (provenance tagging): every record of every flushed batch carries,
\* besides what the endpoint returned, the reporter code and the period of
\* the task whose fetch produced it.
C12_ProvenanceTagged ==
    \A k \in 1..Len(flushes) :
        \A n \in 1..Len(flushes[k].records) :
            LET rec == flushes[k].records[n]
            IN /\ {"reporter_code", "period"} \subseteq DOMAIN rec
               /\ \E j \in 1..Len(checkpoints) :
                     /\ \E m \in 1..Len(checkpoints[j].records) :
                           checkpoints[j].records[m] = AsReturned(rec)
                     /\ rec.reporter_code = fetched[j].code
                     /\ rec.period = fetched[j].year

\* The number a string of decimal digits stands for.
DigitVal(d) == CHOOSE n \in 0..9 : Digits[n + 1] = d

RECURSIVE Num(_)
Num(s) == IF s = <<>> THEN 0
          ELSE 10 * Num(SubSeq(s, 1, Len(s) - 1)) + DigitVal(s[Len(s)])

\* The position of the first "_" of s, Len(s) + 1 when it has none.
FirstSep(s) ==
    IF \E k \in 1..Len(s) : s[k] = "_"
    THEN CHOOSE k \in 1..Len(s) : s[k] = "_" /\ \A m \in 1..(k - 1) : s[m] # "_"
    ELSE Len(s) + 1

\* A key read back: the number before the first "_", the number between the
\* first and the second, and what follows the second.
KeyParts(key) ==
    LET a == FirstSep(key)
        rest == SubSeq(key, a + 1, Len(key))
        b == FirstSep(rest)
    IN <<Num(SubSeq(key, 1, a - 1)), Num(SubSeq(rest, 1, b - 1)),
         SubSeq(rest, b + 1, Len(rest))>>

\* C13 (task-key uniqueness): for every reporter code in 1..900, year in
\* 1962..2024 and flow M or X, the triple can be read back from its key, so
\* two distinct triples never have the same key; and the key the checkpoint
\* writer stores for a task is the one the resume filter looks up: after the
\* task is checkpointed the stored set is exactly that key and the filter no
\* longer lists the task.
C13_KeyInjective ==
    probe.kind = "key" =>
        /\ KeyParts(probe.output.key) = probe.input
        /\ probe.output.stored = {probe.output.key}
        /\ ~probe.output.pending

\* The key of the largest code, the last year and the export flow was computed.
C13_Witness ==
    /\ probe.kind = "key"
    /\ probe.input = <<900, 2024, <<"X">>>>
    /\ probe.output.key = <<"9", "0", "0", "_", "2", "0", "2", "4", "_", "X">>

\* The position of reporter code c in the reporter list R.
IndexIn(R, c) == CHOOSE r \in 1..Len(R) : R[r].code = c

\* M before X.
FlowRank(f_code) == IF f_code = <<"M">> THEN 1 ELSE 2

\* Task a comes before task b in the order reporter (as listed in R), then
\* ascending year, then flow.
Before(R, a, b) ==
    \/ IndexIn(R, a.code) < IndexIn(R, b.code)
    \/ /\ a.code = b.code
       /\ \/ a.year < b.year
          \/ a.year = b.year /\ FlowRank(a.f_code) < FlowRank(b.f_code)

\* C18 (task enumeration): for an ordered reporter list R with distinct
\* codes the task list has |R| * (YEAR_END - YEAR_START + 1) * 2 entries; it
\* holds every combination of a reporter of R, a year of the inclusive range
\* and a flow M or X, none twice; the entries are ordered by reporter, then
\* ascending year, then M before X, so the tasks of one reporter are
\* contiguous; and each entry carries its reporter's name.
C18_TaskEnumeration ==
    probe.kind = "tasks" =>
        LET R == probe.input
            T == probe.output
        IN /\ Len(T) = Len(R) * (YEAR_END - YEAR_START + 1) * 2
           /\ \A r \in 1..Len(R), y \in YEAR_START..YEAR_END, f \in {<<"M">>, <<"X">>} :
                 \E k \in 1..Len(T) :
                     /\ T[k].code = R[r].code
                     /\ T[k].name = R[r].name
                     /\ T[k].year = y
                     /\ T[k].f_code = f
           /\ \A k \in 1..Len(T) :
                 /\ \E r \in 1..Len(R) : T[k].code = R[r].code /\ T[k].name = R[r].name
                 /\ T[k].year \in YEAR_START..YEAR_END
                 /\ T[k].f_code \in {<<"M">>, <<"X">>}
           /\ \A k1, k2 \in 1..Len(T) : k1 < k2 => Before(R, T[k1], T[k2])
           /\ \A k1, k2, k3 \in 1..Len(T) :
                 (k1 < k2 /\ k2 < k3 /\ T[k1].code = T[k3].code) => T[k2].code = T[k1].code

\* The enumeration was applied to a list of three reporters that is not in
\* ascending code order.
C18_Witness ==
    /\ probe.kind = "tasks"
    /\ Len(probe.input) = 3
    /\ probe.input[1].code > probe.input[2].code
    /\ Len(probe.output) = 3 * Len(years) * 2
    /\ probe.output[1].code = probe.input[1].code

\* This step is the save_raw_json of the reporter list (line 124).
WritesReporters == pc = "reporters" /\ pc' = "load"

\* This step flushes a reporter's buffer (line 167 or 193).
WritesTrade == Len(flushes') > Len(flushes)

\* The flush this step made.
LastFlush == flushes'[Len(flushes')]

\* C14 as stated (unique names): no write to the sink, of the reporter list
\* or of a reporter's buffer, uses a name the sink already holds, within a
\* run or across reruns.
C14_NoNameWrittenTwice ==
    [][/\ WritesReporters => ReportersName \notin DOMAIN sink
       /\ WritesTrade => LastFlush.name \notin DOMAIN sink]_vars

\* C14 amended: over all runs, every flush of a reporter's buffer is written
\* under a name trade_{code} the sink does not hold yet, and changes nothing
\* else in the sink; the reporter list is written by every run under the one
\* name "reporters", a rerun replacing it with the same list.
C14_TradeNamesUnique ==
    [][/\ WritesTrade =>
            /\ LastFlush.name \notin DOMAIN sink
            /\ LastFlush.name # ReportersName
            /\ \E r \in 1..Len(TheReporters) : LastFlush.name = TradeName(TheReporters[r].code)
            /\ sink' = Put(sink, LastFlush.name, LastFlush.records)
       /\ WritesReporters =>
            /\ sink' = Put(sink, ReportersName, TheReporters)
            /\ (ReportersName \in DOMAIN sink => sink' = sink)]_vars

\* A rerun after an interruption has flushed the second reporter while the
\* sink already held the first reporter's batch, written by an earlier run.
C14_Witness ==
    /\ loaded # {}
    /\ interrupted = <<>>
    /\ Len(flushes) = 1
    /\ flushes[1].name = TradeName(TheReporters[2].code)
    /\ TradeName(TheReporters[1].code) \in DOMAIN sink
    /\ TradeName(TheReporters[2].code) \in DOMAIN sink

\* This step is a save_state call (line 184).
SavesState == Len(checkpoints') > Len(checkpoints)

\* C15 (grow-only): while a process runs, its in-memory completed set never
\* loses an element; the persisted set never loses an element, in a run or
\* from one run to the next, and changes only by a save_state call; every
\* set save_state writes is the set written before it plus exactly the key
\* of the task just processed, which was not in it, and contains the set
\* loaded at the start of the run.
C15_GrowOnly ==
    [][/\ (pc \notin Stopped /\ pc' \notin {"killed", "aborted"}) =>
              completed \subseteq completed'
       /\ PersistedKeys \subseteq PersistedKeys'
       /\ stateStore' # stateStore => SavesState
       /\ SavesState =>
              /\ KeyOf(pending[i]) \notin PersistedKeys
              /\ PersistedKeys' = PersistedKeys \cup {KeyOf(pending[i])}
              /\ PersistedKeys' = completed'
              /\ loaded \subseteq PersistedKeys'
              /\ checkpoints'[Len(checkpoints')].key = KeyOf(pending[i])]_vars

\* A rerun that loaded a non-empty set has saved twice: the persisted set
\* is the loaded set and two more keys.
C15_Witness ==
    /\ pc = "sleep"
    /\ loaded # {}
    /\ Len(checkpoints) = 2
    /\ loaded \subseteq PersistedKeys
    /\ Cardinality(PersistedKeys \ loaded) = 2
    /\ completed = PersistedKeys

\* C16 (checkpoint exactly once per task): in a run, once a task's fetch has
\* resolved and the process has moved on, save_state has been called once
\* for each task fetched so far, in task order and with the task's key,
\* whether the task returned records or nothing (404, empty data, retries
\* exhausted); while a task is in flight only the tasks before it have been
\* saved; and at the end of an uninterrupted run the number of save_state
\* calls is the number of pending tasks and every enumerated key is persisted.
C16_CheckpointOncePerTask ==
    /\ pc \in {"fetch", "returned"} => Len(checkpoints) = Len(fetched) - 1
    /\ PastCheckpoint => Len(checkpoints) = Len(fetched)
    /\ pc \notin Stopped \cup {"reporters", "load"} =>
          \A j \in 1..Len(checkpoints) :
              /\ checkpoints[j].key = KeyOf(fetched[j])
              /\ checkpoints[j].key \in PersistedKeys
              /\ \A m \in 1..Len(checkpoints) : m # j => checkpoints[m].key # checkpoints[j].key
    /\ pc = "done" =>
          /\ Len(checkpoints) = Len(pending)
          /\ Len(checkpoints) = Cardinality(OpenPositions(loaded))
          /\ \A j \in 1..Len(checkpoints) : checkpoints[j].key = KeyOf(pending[j])
          /\ TheKeys \subseteq PersistedKeys

\* An uninterrupted run over all the tasks has ended; its first task returned
\* records, its second returned nothing, and its last was abandoned after
\* the retries of an error status were exhausted.
C16_Witness ==
    /\ pc = "done"
    /\ loaded = {}
    /\ Len(checkpoints) = Len(TheTasks)
    /\ checkpoints[1].records # <<>>
    /\ checkpoints[2].records = <<>>
    /\ Len(responses) = ERROR_RETRIES + 1
    /\ LastResponse = "500"
    /\ TheKeys = PersistedKeys

\* The run was aborted by a 200 response whose body did not parse.
AbortedByBody == pc = "aborted" /\ responses # <<>> /\ LastResponse = "200"

\* C17 (malformed body): when the body of a 200 response does not parse, the
\* run is aborted and the failing task is not checkpointed: save_state was
\* called for the tasks before it only, the persisted set is the loaded set
\* plus the keys of those tasks, and the failing task is the first one the
\* next run will find pending.
C17_MalformedBodyAborts ==
    AbortedByBody =>
        LET t == fetched[Len(fetched)]
            earlier == {KeyOf(fetched[j]) : j \in 1..(Len(fetched) - 1)}
            next == PendingOf(TheTasks, CompletedOf(stateStore))
        IN /\ KeyOf(t) \notin PersistedKeys
           /\ Len(checkpoints) = Len(fetched) - 1
           /\ PersistedKeys = loaded \cup earlier
           /\ next # <<>>
           /\ Head(next) = t

\* The run was aborted by the unparsable body of its second task, the first
\* one having been checkpointed.
C17_Witness ==
    /\ AbortedByBody
    /\ loaded = {}
    /\ Len(fetched) = 2
    /\ PersistedKeys = {KeyOf(fetched[1])}

\* C19 (shared retry counter): within one task, the k-th response has been
\* preceded by k - 1 retries of either kind, and that total is what both
\* paths use: retry_count is the number of waits made; a 429 at position k
\* is followed by a wait of min(60 * 2^(k-1), 300); an error status at
\* position k is retried after 10 s if k - 1 < 3, and otherwise it is the
\* last response, no wait follows it and the call returns an empty list;
\* so at most three retries are made for error statuses.
C19_SharedRetryCounter ==
    /\ pc \in {"fetch", "returned"} => retry_count = Len(waits)
    /\ Len(waits) <= Len(responses)
    /\ \A k \in 1..Len(responses) :
          /\ responses[k] = "429" =>
                /\ k <= Len(waits)
                /\ waits[k] = Min(BACKOFF_BASE * Pow2(k - 1), BACKOFF_MAX)
          /\ responses[k] = "500" =>
                IF k - 1 < ERROR_RETRIES
                THEN k <= Len(waits) /\ waits[k] = ERROR_WAIT
                ELSE /\ k = Len(responses)
                     /\ Len(waits) = k - 1
                     /\ pc # "fetch"
                     /\ pc = "returned" => records = <<>>
    /\ Cardinality({k \in 1..Len(waits) : responses[k] = "500"}) <= ERROR_RETRIES

\* Three 429 responses, then an error status: it is abandoned without a
\* retry, after waits of 60, 120 and 240 s, and the call returned nothing.
C19_Witness ==
    /\ pc = "returned"
    /\ responses = <<"429", "429", "429", "500">>
    /\ waits = <<60, 120, 240>>
    /\ retry_count = 3
    /\ records = <<>>

\* Every response the task in flight has had so far is a 429.
OnlyRateLimited ==
    /\ pc \in {"fetch", "returned"}
    /\ responses # <<>>
    /\ \A k \in 1..Len(responses) : responses[k] = "429"

\* The run has ended with every pending task checkpointed and the last
\* reporter's buffer, if not empty, flushed.
Terminated ==
    /\ pc = "done"
    /\ Len(checkpoints) = Len(pending)
    /\ TheKeys \subseteq PersistedKeys
    /\ reporter_records # <<>> =>
          /\ flushes # <<>>
          /\ flushes[Len(flushes)] = [name |-> TradeName(current_reporter[1]),
                                      records |-> reporter_records]
          /\ sink[TradeName(current_reporter[1])] = reporter_records

\* C20 (termination): in a run without exception or kill in which the
\* endpoint eventually stops answering 429 to each task, every call of
\* fetch_trade_data returns and the run ends with every pending task
\* checkpointed and the last non-empty buffer flushed; and for as long as
\* the endpoint has answered nothing but 429 to the task in flight, however
\* many times, the call has not returned, the task is not checkpointed and
\* no later task has been fetched.
C20_Termination ==
    /\ <>Terminated
    /\ (pc = "fetch") ~> (pc = "returned")
    /\ [](OnlyRateLimited =>
            /\ pc = "fetch"
            /\ retry_count = Len(responses)
            /\ Len(checkpoints) = Len(fetched) - 1
            /\ KeyOf(pending[i]) \notin PersistedKeys
            /\ fetched[Len(fetched)] = pending[i])

\* The run has ended with every key persisted and a flush made; its last
\* task was answered 429 more often than an error status is retried, then 200.
C20_Witness ==
    /\ Terminated
    /\ TheKeys = PersistedKeys
    /\ flushes # <<>>
    /\ Len(responses) = ERROR_RETRIES + 2
    /\ \A k \in 1..(ERROR_RETRIES + 1) : responses[k] = "429"
    /\ LastResponse = "200"

=============================================================================
